---- MODULE Spec2Model ----
(***************************************************************************)
(* Model of sampleconf/csv2yaml.py: main() checks its arguments, parses    *)
(* the sample sheet with parse_readunits_from_csv, groups the read units   *)
(* by sample_id under the key of key_for_readunit and dumps the document.  *)
(*                                                                         *)
(* Text is a sequence of one-character strings.  A header name such as     *)
(* sample_id is a single token of that sequence: the program never looks   *)
(* inside a field name.  A dict is a sequence of <<key, value>> pairs in   *)
(* insertion order.  A read unit is [id, d]: d is the dict and id is the   *)
(* identity of the dict object (the index of the row that created it).     *)
(***************************************************************************)
EXTENDS Integers, Sequences, FiniteSets, TLC

\* ------------------------------------------------------------------------
\* Bounds of the sample sheets

\* rows of a sample sheet whose cells range over the parser's or the key's cells
MaxRows == 2
\* rows of a sample sheet whose cells range over the grouping's cells
MaxGroupRows == 3

\* ------------------------------------------------------------------------
\* Python values

\* the None that csv.DictReader stores for a cell the row does not have
\* ("None" is a token that is no character of any text)
None == <<"None">>

\* truth value of a str-or-None: None and '' are false
Truthy(v) == v # None /\ v # <<>>

Whitespace == {" ", "\t"}

RECURSIVE lstrip(_)
lstrip(s) == IF s # <<>> /\ Head(s) \in Whitespace THEN lstrip(Tail(s)) ELSE s

RECURSIVE rstrip(_)
rstrip(s) ==
  IF s # <<>> /\ s[Len(s)] \in Whitespace THEN rstrip(SubSeq(s, 1, Len(s) - 1)) ELSE s

\* str.strip()
strip(s) == rstrip(lstrip(s))

\* code point of a character
Code(c) ==
  CASE c = "\t" -> 9
    [] c = " "  -> 32
    [] c = ","  -> 44
    [] c = "/"  -> 47
    [] c = "0"  -> 48
    [] c = "1"  -> 49
    [] c = "2"  -> 50
    [] c = "3"  -> 51
    [] c = "4"  -> 52
    [] c = "5"  -> 53
    [] c = "6"  -> 54
    [] c = "7"  -> 55
    [] c = "8"  -> 56
    [] c = "9"  -> 57
    [] c = "A"  -> 65
    [] c = "B"  -> 66
    [] c = "a"  -> 97
    [] c = "b"  -> 98
    [] c = "c"  -> 99
    [] c = "d"  -> 100
    [] c = "e"  -> 101
    [] c = "f"  -> 102
    [] c = "n"  -> 110
    [] c = "x"  -> 120
    [] c = "y"  -> 121
    [] OTHER    -> 122

\* str < str: lexicographic on code points
RECURSIVE StrLess(_, _)
StrLess(s, t) ==
  IF t = <<>> THEN FALSE
  ELSE IF s = <<>> THEN TRUE
  ELSE IF Code(Head(s)) # Code(Head(t)) THEN Code(Head(s)) < Code(Head(t))
  ELSE StrLess(Tail(s), Tail(t))

\* os.path.basename: what follows the last '/'
RECURSIVE basename(_)
basename(p) ==
  IF \E i \in 1..Len(p) : p[i] = "/"
  THEN basename(Tail(p))
  ELSE p

\* dict lookup, dict membership and dict assignment on a sequence of pairs
HasKey(d, k) == \E i \in 1..Len(d) : d[i][1] = k

Get(d, k) == d[CHOOSE i \in 1..Len(d) : d[i][1] = k][2]

Put(d, k, v) ==
  IF HasKey(d, k)
  THEN [i \in 1..Len(d) |-> IF d[i][1] = k THEN <<k, v>> ELSE d[i]]
  ELSE Append(d, <<k, v>>)

\* ------------------------------------------------------------------------
\* hashlib.md5: the digest is a function of the byte stream alone.  MD5 is
\* stood in for by the two running sums of Adler-32 over the same stream,
\* written as the first 8 of 32 hex digits; like the truncated MD5 it is
\* not injective.

HashMod == 65521

HexDigits == <<"0","1","2","3","4","5","6","7","8","9","a","b","c","d","e","f">>

Hex4(n) == << HexDigits[((n \div 4096) % 16) + 1], HexDigits[((n \div 256) % 16) + 1],
              HexDigits[((n \div 16) % 16) + 1],   HexDigits[(n % 16) + 1] >>

md5_new == [a |-> 1, b |-> 0]

RECURSIVE md5_update(_, _)
md5_update(m, bytes) ==
  IF bytes = <<>> THEN m
  ELSE LET a1 == (m.a + Code(Head(bytes))) % HashMod
       IN  md5_update([a |-> a1, b |-> (m.b + a1) % HashMod], Tail(bytes))

hexdigest(m) == Hex4(m.b) \o Hex4(m.a) \o [i \in 1..24 |-> "0"]

\* ------------------------------------------------------------------------
\* csv2yaml.py

sample_id == <<"sample_id">>
fq1 == <<"fq1">>
fq2 == <<"fq2">>
run_id == <<"run_id">>
flowcell_id == <<"flowcell_id">>
lane_id == <<"lane_id">>
library_id == <<"library_id">>

MANDATORY_FIELDS == <<sample_id, fq1>>
RECOMMENDED_FIELDS == <<fq2, run_id, flowcell_id, lane_id, library_id>>

InList(x, l) == \E i \in 1..Len(l) : l[i] = x

file_keys == <<fq1, fq2>>

\* the list csv.DictReader stores under the key None for the cells a row has
\* beyond the header ("list" is a token that is no character of any text)
RestList == <<"list">>

\* v.encode() exists for a str only
HasEncode(v) == v # None /\ v # RestList

\* the loop without the reduction of fq1 and fq2 to the basename
RECURSIVE key_loop_path(_, _, _)
key_loop_path(m, d, i) ==
  IF i > Len(d) THEN m
  ELSE key_loop_path(md5_update(m, d[i][2]), d, i + 1)

\* the loop with a separator hashed behind every value
RECURSIVE key_loop_sep(_, _, _)
key_loop_sep(m, d, i) ==
  IF i > Len(d) THEN m
  ELSE LET k == d[i][1]
           v == IF InList(k, file_keys) THEN basename(d[i][2]) ELSE d[i][2]
       IN  key_loop_sep(md5_update(m, Append(v, ",")), d, i + 1)

\* the loop of key_for_readunit over ru_dict.items(), from item i on
RECURSIVE key_loop(_, _, _)
key_loop(m, d, i) ==
  IF i > Len(d) THEN m
  ELSE LET k == d[i][1]
           v == IF InList(k, file_keys) THEN basename(d[i][2]) ELSE d[i][2]
       IN  key_loop(md5_update(m, v), d, i + 1)

\* key_for_readunit raises AttributeError on a value that is no str
key_raises(d) == \E i \in 1..Len(d) : ~HasEncode(d[i][2])

key_for_readunit(d) == SubSeq(hexdigest(key_loop(md5_new, d, 1)), 1, 8)

\* ------------------------------------------------------------------------
\* csv.reader with its default dialect: cells are separated by ',' whatever
\* the text was written with; an empty line is the empty row

ReaderDelimiter == ","

RECURSIVE SplitLine(_, _)
SplitLine(line, cur) ==
  IF line = <<>> THEN <<cur>>
  ELSE IF Head(line) = ReaderDelimiter THEN <<cur>> \o SplitLine(Tail(line), <<>>)
  ELSE SplitLine(Tail(line), Append(cur, Head(line)))

csv_reader_row(line) == IF line = <<>> THEN <<>> ELSE SplitLine(line, <<>>)

\* csv.DictReader: the dict of one row under the field names; missing cells
\* are None, surplus cells go under the key None
DictRow(fieldnames, row) ==
  LET lf == Len(fieldnames)
      lr == Len(row)
      zipped == [i \in 1..(IF lf < lr THEN lf ELSE lr) |-> <<fieldnames[i], row[i]>>]
  IN  IF lf < lr THEN Append(zipped, <<None, RestList>>)
      ELSE zipped \o [i \in 1..(lf - lr) |-> <<fieldnames[lr + i], None>>]

\* the rows csv.DictReader yields: the lines after the first, empty rows skipped
RECURSIVE DictReaderRows(_, _, _)
DictReaderRows(fieldnames, lines, i) ==
  IF i > Len(lines) THEN <<>>
  ELSE LET row == csv_reader_row(lines[i])
       IN  IF row = <<>> THEN DictReaderRows(fieldnames, lines, i + 1)
           ELSE <<DictRow(fieldnames, row)>> \o DictReaderRows(fieldnames, lines, i + 1)

\* ------------------------------------------------------------------------
\* parse_readunits_from_csv

\* for f in MANDATORY_FIELDS: assert row[f]; ru[f] = row[f].strip()
RECURSIVE mandatory_loop(_, _, _)
mandatory_loop(row, ru, i) ==
  IF i > Len(MANDATORY_FIELDS) THEN [err |-> "", d |-> ru]
  ELSE LET f == MANDATORY_FIELDS[i]
       IN  IF ~HasKey(row, f) THEN [err |-> "KeyError", d |-> ru]
           ELSE IF ~Truthy(Get(row, f)) THEN [err |-> "AssertionError", d |-> ru]
           ELSE mandatory_loop(row, Put(ru, f, strip(Get(row, f))), i + 1)

\* the loop with row.get(f) in place of row[f]: a missing column is skipped
RECURSIVE recommended_loop_get(_, _, _)
recommended_loop_get(row, ru, i) ==
  IF i > Len(RECOMMENDED_FIELDS) THEN [err |-> "", d |-> ru]
  ELSE LET f == RECOMMENDED_FIELDS[i]
       IN  IF HasKey(row, f) /\ Truthy(Get(row, f))
           THEN recommended_loop_get(row, Put(ru, f, strip(Get(row, f))), i + 1)
           ELSE recommended_loop_get(row, ru, i + 1)

\* for f in RECOMMENDED_FIELDS: if row[f]: ru[f] = row[f].strip()
RECURSIVE recommended_loop(_, _, _)
recommended_loop(row, ru, i) ==
  IF i > Len(RECOMMENDED_FIELDS) THEN [err |-> "", d |-> ru]
  ELSE LET f == RECOMMENDED_FIELDS[i]
       IN  IF ~HasKey(row, f) THEN [err |-> "KeyError", d |-> ru]
           ELSE IF Truthy(Get(row, f))
                THEN recommended_loop(row, Put(ru, f, strip(Get(row, f))), i + 1)
                ELSE recommended_loop(row, ru, i + 1)

\* for k, v in row.items(): every other column is copied as it is
RECURSIVE auxiliary_loop(_, _, _)
auxiliary_loop(row, ru, i) ==
  IF i > Len(row) THEN ru
  ELSE LET k == row[i][1]
       IN  IF InList(k, MANDATORY_FIELDS) \/ InList(k, RECOMMENDED_FIELDS)
           THEN auxiliary_loop(row, ru, i + 1)
           ELSE auxiliary_loop(row, Put(ru, k, row[i][2]), i + 1)

\* the body of the row loop: the dict of the read unit, or the exception
parse_row(row) ==
  LET m == mandatory_loop(row, <<>>, 1)
  IN  IF m.err # "" THEN m
      ELSE LET r == recommended_loop(row, m.d, 1)
           IN  IF r.err # "" THEN r
               ELSE LET ru == auxiliary_loop(row, r.d, 1)
                    IN  IF key_raises(ru) THEN [err |-> "AttributeError", d |-> ru]
                        ELSE [err |-> "", d |-> ru]

\* for _, row in enumerate(csvreader): ... readunits.append(ru)
RECURSIVE row_loop(_, _, _)
row_loop(rows, i, readunits) ==
  IF i > Len(rows) THEN [err |-> "", readunits |-> readunits]
  ELSE IF rows[i] = <<>> THEN row_loop(rows, i + 1, readunits)
  ELSE LET r == parse_row(rows[i])
       IN  IF r.err # "" THEN [err |-> r.err, readunits |-> <<>>]
           ELSE row_loop(rows, i + 1,
                         Append(readunits, [id |-> Len(readunits) + 1, d |-> r.d]))

\* for f in MANDATORY_FIELDS: assert f in header
header_ok(header) == \A i \in 1..Len(MANDATORY_FIELDS) : InList(MANDATORY_FIELDS[i], header)

\* the list of read units of the text, or the exception that ends the parse
parse_readunits_from_csv(lines) ==
  LET header == csv_reader_row(lines[1])
  IN  IF ~header_ok(header) THEN [err |-> "AssertionError", readunits |-> <<>>]
      ELSE row_loop(DictReaderRows(header, lines, 2), 1, <<>>)

\* ------------------------------------------------------------------------
\* main: grouping

\* key=lambda x: x['sample_id']
sort_key(ru) == Get(ru.d, sample_id)

\* an insertion that puts x in front of the elements that are equal
RECURSIVE insert_sorted_front(_, _)
insert_sorted_front(l, x) ==
  IF l = <<>> THEN <<x>>
  ELSE IF ~StrLess(sort_key(Head(l)), sort_key(x)) THEN <<x>> \o l
  ELSE <<Head(l)>> \o insert_sorted_front(Tail(l), x)

\* x goes behind every element that is not greater: the sort is stable
RECURSIVE insert_sorted(_, _)
insert_sorted(l, x) ==
  IF l = <<>> THEN <<x>>
  ELSE IF StrLess(sort_key(x), sort_key(Head(l))) THEN <<x>> \o l
  ELSE <<Head(l)>> \o insert_sorted(Tail(l), x)

RECURSIVE sorted_from(_, _, _)
sorted_from(l, i, acc) ==
  IF i > Len(l) THEN acc ELSE sorted_from(l, i + 1, insert_sorted(acc, l[i]))

\* the list left as it is
sorted_not(l) == l

\* sorted(readunits, key=lambda x: x['sample_id'])
sorted(l) == sorted_from(l, 1, <<>>)

\* the loop with a list of read units per sample in place of the dict
RECURSIVE group_loop_list(_, _, _)
group_loop_list(l, i, samples) ==
  IF i > Len(l) THEN samples
  ELSE LET ru == l[i]
           sid == sort_key(ru)
           starts == i = 1 \/ sort_key(l[i - 1]) # sid
           s1 == IF starts THEN Put(samples, sid, <<>>) ELSE samples
       IN  group_loop_list(l, i + 1,
                           Put(s1, sid, Append(Get(s1, sid), <<key_for_readunit(ru.d), ru>>)))

\* for sample_id, g_readunits in groupby(readunits, ...): a group starts where
\* the key differs from that of the element before, and starting a group
\* assigns a fresh {'readunits': dict()} to the sample
RECURSIVE group_loop(_, _, _)
group_loop(l, i, samples) ==
  IF i > Len(l) THEN samples
  ELSE LET ru == l[i]
           sid == sort_key(ru)
           starts == i = 1 \/ sort_key(l[i - 1]) # sid
           s1 == IF starts THEN Put(samples, sid, <<>>) ELSE samples
       IN  group_loop(l, i + 1,
                      Put(s1, sid, Put(Get(s1, sid), key_for_readunit(ru.d), ru)))

\* ------------------------------------------------------------------------
\* main: yaml.dump(dict(samples=samples), fh, default_flow_style=False)

\* yaml.Dumper.ignore_aliases = lambda *args: True
ignore_aliases(data) == TRUE

\* the entries of a dict in the order of their keys (yaml.dump sorts keys)
RECURSIVE insert_by_key(_, _)
insert_by_key(l, x) ==
  IF l = <<>> THEN <<x>>
  ELSE IF StrLess(x[1], Head(l)[1]) THEN <<x>> \o l
  ELSE <<Head(l)>> \o insert_by_key(Tail(l), x)

RECURSIVE sort_items(_, _, _)
sort_items(d, i, acc) ==
  IF i > Len(d) THEN acc ELSE sort_items(d, i + 1, insert_by_key(acc, d[i]))

\* the node of a read unit: an alias when the object was represented before
\* and aliases are not ignored, otherwise the mapping written out in full
\* (the order of the fields inside the node is not modelled)
represent(ru, represented) ==
  IF ~ignore_aliases(ru) /\ ru.id \in represented
  THEN [alias |-> TRUE, id |-> ru.id, fields |-> {}]
  ELSE [alias |-> FALSE, id |-> ru.id, fields |-> {ru.d[j] : j \in 1..Len(ru.d)}]

RECURSIVE represent_readunits(_, _, _)
represent_readunits(items, i, represented) ==
  IF i > Len(items) THEN <<>>
  ELSE <<[key |-> items[i][1], node |-> represent(items[i][2], represented)]>>
       \o represent_readunits(items, i + 1, represented \cup {items[i][2].id})

Ids(items) == {items[i][2].id : i \in 1..Len(items)}

RECURSIVE represent_samples(_, _, _)
represent_samples(items, i, represented) ==
  IF i > Len(items) THEN <<>>
  ELSE LET rus == sort_items(items[i][2], 1, <<>>)
       IN  <<[sample |-> items[i][1],
              readunits |-> represent_readunits(rus, 1, represented)]>>
           \o represent_samples(items, i + 1, represented \cup Ids(rus))

\* the document: the samples in key order, each with its read units in key order
dump(samples) == represent_samples(sort_items(samples, 1, <<>>), 1, {})

\* ------------------------------------------------------------------------
\* The sample sheets.  A table is a header and rows of cells;
\* the text of the file is the table written with the separator.

note == <<"note">>

FullHeader == <<sample_id, fq1, fq2, run_id, flowcell_id, lane_id, library_id>>

\* all seven columns and an auxiliary one
AuxHeader == Append(FullHeader, note)

\* a header without the recommended column library_id
NoLibraryHeader == <<sample_id, fq1, fq2, run_id, flowcell_id, lane_id>>

\* a header without the mandatory column fq1
NoFq1Header == <<sample_id, fq2, run_id, flowcell_id, lane_id, library_id>>

\* cells of the sheets that exercise the parser
WideCells(name) ==
  CASE name = sample_id -> { <<"A">>, <<" ">> }
    [] name = fq1       -> { <<"x">>, <<>> }
    [] name = fq2       -> { <<>>, <<" ">>, <<" ", "y">> }
    [] name = note      -> { <<" ", "n">> }
    [] OTHER            -> { <<>> }

\* cells of the sheets that exercise the key
KeyCells(name) ==
  CASE name = sample_id -> { <<"A">> }
    [] name = fq1       -> { <<"x">>, <<"d", "/", "x">>, <<"x", "a">> }
    [] name = run_id    -> { <<>>, <<"a">> }
    [] name = lane_id   -> { <<>>, <<"a">> }
    [] OTHER            -> { <<>> }

\* cells of the sheets that exercise the grouping
GroupCells(name) ==
  CASE name = sample_id -> { <<"A">>, <<"B">> }
    [] name = fq1       -> { <<"x">>, <<"d", "/", "x">> }
    [] name = run_id    -> { <<>>, <<"a">> }
    [] OTHER            -> { <<>> }

Cells(family, name) ==
  CASE family = "wide" -> WideCells(name)
    [] family = "key"  -> KeyCells(name)
    [] OTHER           -> GroupCells(name)

\* the full rows under the header whose cells from column i on are of the family
RECURSIVE Rows(_, _, _)
Rows(family, header, i) ==
  IF i > Len(header) THEN { <<>> }
  ELSE { <<c>> \o r : c \in Cells(family, header[i]), r \in Rows(family, header, i + 1) }

\* full rows, rows that stop after the second cell, and the empty row
WideRowPool(header) ==
  Rows("wide", header, 1) \cup { SubSeq(r, 1, 2) : r \in Rows("wide", header, 1) } \cup { <<>> }

SeqsUpTo(S, n) == UNION { [1..k -> S] : k \in 0..n }

WideHeaders == {AuxHeader, NoLibraryHeader, NoFq1Header}

Tables ==
  UNION { { [header |-> h, rows |-> rs] : rs \in SeqsUpTo(WideRowPool(h), MaxRows) } :
          h \in WideHeaders }
  \cup { [header |-> FullHeader, rows |-> rs] :
           rs \in SeqsUpTo(Rows("key", FullHeader, 1), MaxRows) }
  \cup { [header |-> FullHeader, rows |-> rs] :
           rs \in SeqsUpTo(Rows("group", FullHeader, 1), MaxGroupRows) }

RECURSIVE JoinCells(_, _)
JoinCells(cells, sep) ==
  IF cells = <<>> THEN <<>>
  ELSE IF Len(cells) = 1 THEN cells[1]
  ELSE cells[1] \o <<sep>> \o JoinCells(Tail(cells), sep)

\* the lines of the file that holds the table, header first
WriteTable(t, sep) ==
  <<JoinCells(t.header, sep)>> \o [i \in 1..Len(t.rows) |-> JoinCells(t.rows[i], sep)]

\* values of -d: the default, a comma, and one that is not a single character
Delimiters == { <<"\t">>, <<",">>, <<>> }

\* values of -o: standard output, and a path
Targets == { "-", "out" }

\* ------------------------------------------------------------------------
\* The run of main()

VARIABLES
  pc,          \* where main() is
  args,        \* the parsed command line: delimiter, yaml, force_overwrite
  csv_exists,  \* os.path.exists(args.csv) when main() starts
  yaml_exists, \* os.path.exists(args.yaml) when main() starts
  yamlfile,    \* content of the file args.yaml: <<"absent">>, <<"old">>, <<"doc", document>>
  stdout,      \* what was written to sys.stdout: <<>> or <<document>>
  table,       \* the table the file args.csv holds, once it has been read
  readunits,   \* the local readunits of main()
  samples,     \* the local samples of main()
  status       \* "running", "ok", the fatal message logged, or the exception raised

vars == <<pc, args, csv_exists, yaml_exists, yamlfile, stdout, table, readunits, samples, status>>

NoTable == [header |-> <<>>, rows |-> <<>>]

Init ==
  /\ pc = "check_delimiter"
  /\ args \in [delimiter : Delimiters, yaml : Targets, force_overwrite : BOOLEAN]
  /\ csv_exists \in BOOLEAN
  /\ yaml_exists \in BOOLEAN
  /\ args.yaml = "-" => ~yaml_exists
  /\ yamlfile = IF yaml_exists THEN <<"old">> ELSE <<"absent">>
  /\ stdout = <<>>
  /\ table = NoTable
  /\ readunits = <<>>
  /\ samples = <<>>
  /\ status = "running"

\* if len(args.delimiter) != 1
delimiter_ok(a) == Len(a.delimiter) = 1

\* if not os.path.exists(args.csv)
input_ok(exists) == exists

\* the check with the sense of the flag inverted
output_ok_inverted(a, exists) == ~(a.yaml # "-" /\ exists /\ a.force_overwrite)

\* if args.yaml != "-" and os.path.exists(args.yaml) and not args.force_overwrite
output_ok(a, exists) == ~(a.yaml # "-" /\ exists /\ ~a.force_overwrite)

CheckDelimiter ==
  /\ pc = "check_delimiter"
  /\ IF delimiter_ok(args)
     THEN pc' = "check_input" /\ status' = status
     ELSE pc' = "exit" /\ status' = "fatal: delimiter"
  /\ UNCHANGED <<args, csv_exists, yaml_exists, yamlfile, stdout, table, readunits, samples>>

CheckInput ==
  /\ pc = "check_input"
  /\ IF input_ok(csv_exists)
     THEN pc' = "check_output" /\ status' = status
     ELSE pc' = "exit" /\ status' = "fatal: input"
  /\ UNCHANGED <<args, csv_exists, yaml_exists, yamlfile, stdout, table, readunits, samples>>

CheckOutput ==
  /\ pc = "check_output"
  /\ IF output_ok(args, yaml_exists)
     THEN pc' = "parse" /\ status' = status
     ELSE pc' = "exit" /\ status' = "fatal: overwrite"
  /\ UNCHANGED <<args, csv_exists, yaml_exists, yamlfile, stdout, table, readunits, samples>>

\* readunits = parse_readunits_from_csv(args.csv); the file holds some table,
\* written with the separator the command line names
Parse ==
  /\ pc = "parse"
  /\ \E t \in Tables :
       LET r == parse_readunits_from_csv(WriteTable(t, args.delimiter[1]))
       IN  /\ table' = t
           /\ IF r.err = ""
              THEN pc' = "group" /\ status' = status /\ readunits' = r.readunits
              ELSE pc' = "exit" /\ status' = r.err /\ readunits' = readunits
  /\ UNCHANGED <<args, csv_exists, yaml_exists, yamlfile, stdout, samples>>

\* readunits = sorted(...); the groupby loop
Group ==
  /\ pc = "group"
  /\ readunits' = sorted(readunits)
  /\ samples' = group_loop(readunits', 1, <<>>)
  /\ pc' = "dump"
  /\ UNCHANGED <<args, csv_exists, yaml_exists, yamlfile, stdout, table, status>>

\* fh = sys.stdout or open(args.yaml, 'w'); yaml.dump(...); fh.close()
Dump ==
  /\ pc = "dump"
  /\ IF args.yaml = "-"
     THEN stdout' = <<dump(samples)>> /\ yamlfile' = yamlfile
     ELSE yamlfile' = <<"doc", dump(samples)>> /\ stdout' = stdout
  /\ pc' = "exit"
  /\ status' = "ok"
  /\ UNCHANGED <<args, csv_exists, yaml_exists, table, readunits, samples>>

Next == CheckDelimiter \/ CheckInput \/ CheckOutput \/ Parse \/ Group \/ Dump

Spec == Init /\ [][Next]_vars

\* ------------------------------------------------------------------------
\* Vocabulary of the properties

\* parse_readunits_from_csv has returned
ParsedOk == pc \in {"group", "dump"} \/ status = "ok"

\* the grouping loop has finished
Grouped == pc = "dump" \/ status = "ok"

Exceptions == {"AssertionError", "KeyError", "AttributeError"}

Fatals == {"fatal: delimiter", "fatal: input", "fatal: overwrite"}

NonBlankRow(r) == JoinCells(r, ",") # <<>>

\* the rows of the table that are not blank lines, in file order
DataRows(t) == SelectSeq(t.rows, NonBlankRow)

\* the cell of a row in the column named f; empty when the row or the header
\* has no such cell
CellOf(t, r, f) ==
  IF \E p \in 1..Len(t.header) : t.header[p] = f /\ p <= Len(r)
  THEN r[CHOOSE p \in 1..Len(t.header) : t.header[p] = f /\ p <= Len(r)]
  ELSE <<>>

InHeader(t, f) == \E p \in 1..Len(t.header) : t.header[p] = f

RecommendedSet == {RECOMMENDED_FIELDS[i] : i \in 1..Len(RECOMMENDED_FIELDS)}

MandatorySet == {MANDATORY_FIELDS[i] : i \in 1..Len(MANDATORY_FIELDS)}

\* the read units main() holds, as a set, and the one made from data row i
Units == {readunits[i] : i \in 1..Len(readunits)}

HasUnit(i) == \E u \in Units : u.id = i

UnitOf(i) == CHOOSE u \in Units : u.id = i

\* the entries <<key, read unit>> of all samples, and of one sample
SampleEntries(i) == {samples[i][2][j] : j \in 1..Len(samples[i][2])}

Stored == UNION {SampleEntries(i) : i \in 1..Len(samples)}

StoredUnder(s) == UNION {SampleEntries(i) : i \in {j \in 1..Len(samples) : samples[j][1] = s}}

StoredIds == {e[2].id : e \in Stored}

\* the document that was written
Written == IF stdout # <<>> THEN stdout[1] ELSE IF yamlfile[1] = "doc" THEN yamlfile[2] ELSE <<>>

Nodes == UNION {{Written[i].readunits[j] : j \in 1..Len(Written[i].readunits)} : i \in 1..Len(Written)}

\* C1: whenever the parse returns, every read unit holds sample_id and fq1
\* with a value that is not empty and carries no surrounding whitespace.
C1_MandatoryNonEmpty ==
  ParsedOk =>
    \A u \in Units : \A f \in MandatorySet :
      /\ HasKey(u.d, f)
      /\ Get(u.d, f) # <<>>
      /\ strip(Get(u.d, f)) = Get(u.d, f)

\* C2: whenever the parse returns, a read unit holds a recommended field of
\* the header exactly when the cell of its row is not empty after trimming,
\* and never holds one with an empty value.
C2_RecommendedIffNonEmpty ==
  ParsedOk =>
    \A u \in Units : \A f \in RecommendedSet :
      InHeader(table, f) =>
        /\ HasKey(u.d, f) <=> strip(CellOf(table, DataRows(table)[u.id], f)) # <<>>
        /\ HasKey(u.d, f) => Get(u.d, f) # <<>>

\* C3: a table written with the delimiter of the command line parses to what
\* the same table written with a comma parses to under the comma.
C3_DelimiterHonoured ==
  table # NoTable =>
    LET ref == parse_readunits_from_csv(WriteTable(table, ","))
    IN  /\ (status \in Exceptions) <=> (ref.err # "")
        /\ pc = "group" => readunits = ref.readunits

\* ------------------------------------------------------------------------
\* Grouping

NumDataRows == Len(DataRows(table))

\* the read units of sample s have pairwise distinct keys
DistinctKeys(s) ==
  \A u, v \in Units :
    (sort_key(u) = s /\ sort_key(v) = s /\ u.id # v.id)
      => key_for_readunit(u.d) # key_for_readunit(v.d)

\* C4: after the grouping the samples are exactly the distinct sample_id
\* values of the read units, one sample per value; every read unit stored
\* under a sample carries that sample_id; and a sample whose read units have
\* pairwise distinct keys holds one entry for each of its rows.
C4_Grouping ==
  Grouped =>
    /\ {u.id : u \in Units} = 1..NumDataRows
    /\ {samples[i][1] : i \in 1..Len(samples)} = {sort_key(u) : u \in Units}
    /\ \A i, j \in 1..Len(samples) : samples[i][1] = samples[j][1] => i = j
    /\ \A i \in 1..Len(samples) : \A e \in SampleEntries(i) : sort_key(e[2]) = samples[i][1]
    /\ \A i \in 1..Len(samples) :
         DistinctKeys(samples[i][1]) =>
           /\ {e[2].id : e \in SampleEntries(i)} = {u.id : u \in {v \in Units : sort_key(v) = samples[i][1]}}
           /\ Len(samples[i][2]) = Cardinality({v \in Units : sort_key(v) = samples[i][1]})

\* rows of sample A, B, A in this order with distinct keys end as two samples,
\* A with two read units and B with one
C4_Witness ==
  /\ Grouped
  /\ NumDataRows = 3
  /\ sort_key(UnitOf(1)) = <<"A">> /\ sort_key(UnitOf(2)) = <<"B">> /\ sort_key(UnitOf(3)) = <<"A">>
  /\ DistinctKeys(<<"A">>)
  /\ Len(samples) = 2
  /\ Cardinality(StoredUnder(<<"A">>)) = 2
  /\ Cardinality(StoredUnder(<<"B">>)) = 1

\* the rows of sample s whose read unit has key k
RowsWithKey(s, k) ==
  {i \in 1..NumDataRows : HasUnit(i) /\ sort_key(UnitOf(i)) = s /\ key_for_readunit(UnitOf(i).d) = k}

Max(S) == CHOOSE x \in S : \A y \in S : y <= x

\* C5: the entry stored under a key of a sample is the read unit of the last
\* row of the file among the rows of that sample with that key, and a sample
\* has one entry per key.
C5_LastWriteWins ==
  Grouped =>
    \A i \in 1..Len(samples) :
      /\ \A e \in SampleEntries(i) :
           /\ RowsWithKey(samples[i][1], e[1]) # {}
           /\ e[2].id = Max(RowsWithKey(samples[i][1], e[1]))
      /\ \A j, k \in 1..Len(samples[i][2]) : samples[i][2][j][1] = samples[i][2][k][1] => j = k

\* two rows of one sample with one key and different content: the later is
\* stored, the earlier is not
C5_Witness ==
  /\ Grouped
  /\ \E u, v \in Units :
       /\ u.id < v.id
       /\ sort_key(u) = sort_key(v)
       /\ key_for_readunit(u.d) = key_for_readunit(v.d)
       /\ u.d # v.d
       /\ v.id \in StoredIds
       /\ u.id \notin StoredIds

\* C6 as stated: two rows with identical content are both entries of the
\* sample's mapping.
C6_TwoEntries ==
  Grouped =>
    \A u, v \in Units : (u.id # v.id /\ u.d = v.d) => (u.id \in StoredIds /\ v.id \in StoredIds)

\* C6 amended: two rows with identical content have one key and the sample's
\* mapping holds one entry under that key, so at most one of the two is
\* stored; every entry of the document is a mapping written out in full with
\* the fields of its read unit, none is an alias.
C6_OneExpandedEntry ==
  /\ Grouped =>
       \A u, v \in Units : (u.id # v.id /\ u.d = v.d) =>
         /\ key_for_readunit(u.d) = key_for_readunit(v.d)
         /\ Cardinality({e \in StoredUnder(sort_key(u)) : e[1] = key_for_readunit(u.d)}) = 1
         /\ ~(u.id \in StoredIds /\ v.id \in StoredIds)
  /\ status = "ok" =>
       /\ \A n \in Nodes : ~n.node.alias
       /\ {<<n.key, n.node.fields>> : n \in Nodes}
            = {<<e[1], {e[2].d[j] : j \in 1..Len(e[2].d)}>> : e \in Stored}

\* a document was written from a sheet with two identical rows
C6_Witness ==
  /\ status = "ok"
  /\ \E u, v \in Units : u.id # v.id /\ u.d = v.d
  /\ Nodes # {}

\* ------------------------------------------------------------------------
\* The key

\* v and w are the same final path component behind directory prefixes
SameFile(v, w) ==
  \E n \in 0..Len(v) :
    /\ n <= Len(w)
    /\ SubSeq(v, Len(v) - n + 1, Len(v)) = SubSeq(w, Len(w) - n + 1, Len(w))
    /\ \A i \in (Len(v) - n + 1)..Len(v) : v[i] # "/"
    /\ Len(v) > n => v[Len(v) - n] = "/"
    /\ Len(w) > n => w[Len(w) - n] = "/"

\* the same fields in the same order with the same values, but for the
\* directories of fq1 and fq2
SameButDirectory(d, e) ==
  /\ Len(d) = Len(e)
  /\ \A i \in 1..Len(d) :
       /\ d[i][1] = e[i][1]
       /\ d[i][2] = e[i][2] \/ (InList(d[i][1], file_keys) /\ SameFile(d[i][2], e[i][2]))

HexSet == {HexDigits[i] : i \in 1..Len(HexDigits)}

\* C7: read units that differ only in the directory of fq1 or fq2 have the
\* same key, and a key is 8 hexadecimal characters.
C7_BasenameKey ==
  ParsedOk =>
    /\ \A u, v \in Units : SameButDirectory(u.d, v.d) => key_for_readunit(u.d) = key_for_readunit(v.d)
    /\ \A u \in Units :
         /\ Len(key_for_readunit(u.d)) = 8
         /\ \A i \in 1..8 : key_for_readunit(u.d)[i] \in HexSet

\* two read units that differ in the directory of fq1 only
C7_Witness ==
  /\ ParsedOk
  /\ \E u, v \in Units :
       /\ SameButDirectory(u.d, v.d)
       /\ Get(u.d, fq1) # Get(v.d, fq1)
       /\ key_for_readunit(u.d) = key_for_readunit(v.d)

\* the values of a read unit one after the other, fq1 and fq2 without directory
RECURSIVE Concatenation(_)
Concatenation(d) ==
  IF d = <<>> THEN <<>>
  ELSE (IF Head(d)[1] \in {fq1, fq2} THEN basename(Head(d)[2]) ELSE Head(d)[2])
       \o Concatenation(Tail(d))

\* C10: read units with the same concatenation of values have the same key,
\* whatever their field names and value boundaries, and of two such read
\* units of one sample at most one is stored.
C10_ConcatenationOnly ==
  /\ ParsedOk =>
       \A u, v \in Units :
         Concatenation(u.d) = Concatenation(v.d) => key_for_readunit(u.d) = key_for_readunit(v.d)
  /\ Grouped =>
       \A u, v \in Units :
         (u.id # v.id /\ sort_key(u) = sort_key(v) /\ Concatenation(u.d) = Concatenation(v.d))
           => ~(u.id \in StoredIds /\ v.id \in StoredIds)

\* two read units of one sample with different fields (the value a under
\* run_id in one, under lane_id in the other) and one concatenation, of which
\* one is stored
C10_Witness ==
  /\ Grouped
  /\ \E u, v \in Units :
       /\ sort_key(u) = sort_key(v)
       /\ HasKey(u.d, run_id) /\ ~HasKey(u.d, lane_id)
       /\ HasKey(v.d, lane_id) /\ ~HasKey(v.d, run_id)
       /\ Get(u.d, run_id) = Get(v.d, lane_id)
       /\ Concatenation(u.d) = Concatenation(v.d)
       /\ Cardinality({u.id, v.id} \cap StoredIds) = 1

\* ------------------------------------------------------------------------
\* The run

ChecksPass ==
  /\ Len(args.delimiter) = 1
  /\ csv_exists
  /\ args.yaml = "-" \/ ~yaml_exists \/ args.force_overwrite

OutputUntouched ==
  /\ stdout = <<>>
  /\ yamlfile = IF yaml_exists THEN <<"old">> ELSE <<"absent">>

\* C8: the parse begins only when the three checks hold; a run that ends
\* with a fatal message or an exception has written nothing, so that the
\* output file is as it was; whatever is written is written by a run whose
\* checks and parse succeeded.
C8_WriteAfterChecksAndParse ==
  /\ (pc \in {"parse", "group", "dump"} \/ status \in Exceptions \cup {"ok"}) => ChecksPass
  /\ ~delimiter_ok(args) => (pc = "check_delimiter" \/ status = "fatal: delimiter")
  /\ (pc = "exit" /\ status \in Fatals) => (table = NoTable /\ ~ChecksPass)
  /\ status # "ok" => OutputUntouched
  /\ ~OutputUntouched => (ChecksPass /\ pc = "exit" /\ table # NoTable)

\* a run over an existing output file with -f that ended in an exception of
\* the parse and left the file as it was
C8_Witness ==
  /\ pc = "exit"
  /\ status \in Exceptions
  /\ args.yaml # "-" /\ yaml_exists /\ args.force_overwrite
  /\ yamlfile = <<"old">>

\* C9: a sheet whose header has both mandatory fields and lacks a recommended
\* one, with a data row, never yields a document: the run ends in an exception.
C9_MissingRecommendedColumn ==
  ( /\ table # NoTable
    /\ \A f \in MandatorySet : InHeader(table, f)
    /\ \E f \in RecommendedSet : ~InHeader(table, f)
    /\ NumDataRows > 0 )
  => (pc = "exit" /\ status \in Exceptions /\ OutputUntouched)

\* the lookup of the missing column failed on a row whose mandatory cells
\* are filled
C9_Witness ==
  /\ status = "KeyError"
  /\ \E f \in RecommendedSet : ~InHeader(table, f)
  /\ \E i \in 1..NumDataRows : \A f \in MandatorySet : CellOf(table, DataRows(table)[i], f) # <<>>

====
